---------------------------- MODULE Spec2Model ----------------------------
(***************************************************************************)
(* A model of the argon2 Go bindings' hash-string codec: the cursor        *)
(* parser, Raw.Encode, Decode, and the Hash / Verify compositions built on *)
(* them.  Byte slices are sequences of 0..255; offsets are 0-based as in   *)
(* the Go code (buf[i] is written buf[i + 1] here).  A uint32 is kept at   *)
(* its full width as a pair <<hi, lo>> of 16-bit limbs, because the model  *)
(* checker's own integers are narrower than 2^32.                          *)
(***************************************************************************)
EXTENDS Integers, Sequences, FiniteSets, TLC

(***************************************************************************)
(* uint32 arithmetic on 16-bit limbs                                       *)
(***************************************************************************)
Limb == 256 * 256

\* uint32(n) for a small natural n
U32(n) == <<n \div Limb, n % Limb>>

U32Zero == <<0, 0>>

\* r < rb on uint32
U32Less(a, b) == a[1] < b[1] \/ (a[1] = b[1] /\ a[2] < b[2])

\* r*10 + d with uint32 wrap-around (the Go expression r*10 + uint32(d-'0'))
U32MulAdd10(r, d) ==
    LET lo == r[2] * 10 + d
        hi == r[1] * 10 + (lo \div Limb)
    IN  <<hi % Limb, lo % Limb>>

\* u / 10 and u % 10 by long division over the limbs
U32Div10(u) ==
    LET t == (u[1] % 10) * Limb + u[2]
    IN  <<u[1] \div 10, t \div 10>>

U32Mod10(u) == ((u[1] % 10) * Limb + u[2]) % 10

(***************************************************************************)
(* strconv.AppendUint(buf, uint64(x), 10): minimal-width decimal digits    *)
(***************************************************************************)
RECURSIVE FormatUint(_)
FormatUint(u) ==
    IF u[1] = 0 /\ u[2] < 10
    THEN <<48 + u[2]>>
    ELSE Append(FormatUint(U32Div10(u)), 48 + U32Mod10(u))

(***************************************************************************)
(* Byte-slice helpers                                                      *)
(***************************************************************************)
\* buf[i:j] with 0-based half-open bounds
Slice(buf, i, j) == SubSeq(buf, i + 1, j)

\* bytes.IndexByte(buf[i:], delim): index relative to i, or -1
RECURSIVE IndexByteFrom(_, _, _, _)
IndexByteFrom(buf, i, delim, k) ==
    IF i + k >= Len(buf) THEN -1
    ELSE IF buf[i + k + 1] = delim THEN k
    ELSE IndexByteFrom(buf, i, delim, k + 1)

IndexByte(buf, i, delim) == IndexByteFrom(buf, i, delim, 0)

\* bytes.Compare(a, b): -1, 0 or +1 by lexicographic order
RECURSIVE CompareFrom(_, _, _)
CompareFrom(a, b, k) ==
    IF k > Len(a) /\ k > Len(b) THEN 0
    ELSE IF k > Len(a) THEN -1
    ELSE IF k > Len(b) THEN 1
    ELSE IF a[k] < b[k] THEN -1
    ELSE IF a[k] > b[k] THEN 1
    ELSE CompareFrom(a, b, k + 1)

Compare(a, b) == CompareFrom(a, b, 1)

\* x | y on the int results of bytes.Compare (two's complement: -1 is all ones)
BitOr(x, y) ==
    IF x = -1 \/ y = -1 THEN -1
    ELSE IF x = 1 \/ y = 1 THEN 1
    ELSE 0

\* A slice value that may be nil (Go distinguishes nil from an empty slice)
NilSlice == [isNil |-> TRUE, bytes |-> <<>>]
SliceOf(b) == [isNil |-> FALSE, bytes |-> b]

(***************************************************************************)
(* parser: each operation returns the new offset and the returned value    *)
(***************************************************************************)
\* check without its test of what is left: the offset moves by len(b) anyway
checkUnguarded(buf, off, b) ==
    LET j == off + Len(b)
    IN  IF j <= Len(buf)
        THEN [off |-> j, val |-> Compare(b, Slice(buf, off, j))]
        ELSE [off |-> j, val |-> 1]

\* Ensures that the next len(b) bytes match b
check(buf, off, b) ==
    LET j == off + Len(b)
    IN  IF j <= Len(buf)
        THEN [off |-> j, val |-> Compare(b, Slice(buf, off, j))]
        ELSE [off |-> off, val |-> 0]

\* Reads a single byte or returns 0
readByte(buf, off) ==
    IF off < Len(buf)
    THEN [off |-> off + 1, val |-> buf[off + 1]]
    ELSE [off |-> off, val |-> 0]

\* The loop of parseUint32 from index i with accumulator r; start is p.off,
\* which an overflow return leaves untouched.
RECURSIVE parseLoop(_, _, _, _)
parseLoop(buf, start, i, r) ==
    IF i < Len(buf) /\ 48 <= buf[i + 1] /\ buf[i + 1] <= 57
    THEN LET rn == U32MulAdd10(r, buf[i + 1] - 48)
         IN  IF U32Less(rn, r)
             THEN [off |-> start, val |-> U32Zero]
             ELSE parseLoop(buf, start, i + 1, rn)
    ELSE [off |-> i, val |-> r]

parseUint32(buf, off) == parseLoop(buf, off, off, U32Zero)

\* A skip of delim only where it is the very next byte
skipUntilNext(buf, off, delim) ==
    IF off < Len(buf) /\ buf[off + 1] = delim
    THEN [off |-> off + 1]
    ELSE [off |-> off]

\* Skips 0 or more bytes until delim is found (the skip includes delim)
skipUntil(buf, off, delim) ==
    LET idx == IndexByte(buf, off, delim)
    IN  IF idx >= 0 THEN [off |-> off + idx + 1] ELSE [off |-> off]

\* Like skipUntil, but returns the skipped bytes; nil if fewer than 1
readSlice(buf, off, delim) ==
    LET idx == IndexByte(buf, off, delim)
    IN  IF idx > 0
        THEN [off |-> off + idx + 1, val |-> SliceOf(Slice(buf, off, off + idx))]
        ELSE [off |-> off, val |-> NilSlice]

\* readRest without its length test: an empty, non-nil slice at the end
readRestEmpty(buf, off) ==
    [off |-> Len(buf), val |-> SliceOf(Slice(buf, off, Len(buf)))]

\* Returns the rest of the buffer, or nil if fewer than 1 byte is left
readRest(buf, off) ==
    IF off < Len(buf)
    THEN [off |-> Len(buf), val |-> SliceOf(Slice(buf, off, Len(buf)))]
    ELSE [off |-> off, val |-> NilSlice]

(***************************************************************************)
(* enc64 = base64.RawStdEncoding: standard alphabet, no padding            *)
(***************************************************************************)
\* The URL-safe alphabet of base64.RawURLEncoding ('-' and '_' for 62, 63):
\* what enc64 would be with the other standard encoding
EncCharURL(x) ==
    IF x < 26 THEN 65 + x
    ELSE IF x < 52 THEN 97 + (x - 26)
    ELSE IF x < 62 THEN 48 + (x - 52)
    ELSE IF x = 62 THEN 45
    ELSE 95

\* The alphabet: sextet 0..63 to its ASCII character
EncChar(x) ==
    IF x < 26 THEN 65 + x
    ELSE IF x < 52 THEN 97 + (x - 26)
    ELSE IF x < 62 THEN 48 + (x - 52)
    ELSE IF x = 62 THEN 43
    ELSE 47

\* The decode map: ASCII character to its sextet, or -1 outside the alphabet
DecChar(ch) ==
    IF 65 <= ch /\ ch <= 90 THEN ch - 65
    ELSE IF 97 <= ch /\ ch <= 122 THEN ch - 97 + 26
    ELSE IF 48 <= ch /\ ch <= 57 THEN ch - 48 + 52
    ELSE IF ch = 43 THEN 62
    ELSE IF ch = 47 THEN 63
    ELSE -1

\* enc64.EncodedLen(n)
EncodedLen(n) == (n \div 3) * 4 + ((n % 3) * 8 + 5) \div 6

\* enc64.DecodedLen(n)
DecodedLen(n) == (n * 6) \div 8

\* enc64.Encode: 3 bytes to 4 characters, a trailing 1 or 2 bytes to 2 or 3
RECURSIVE Encode64(_)
Encode64(src) ==
    IF Len(src) = 0 THEN <<>>
    ELSE IF Len(src) = 1 THEN
        LET val == src[1] * 65536
        IN  <<EncChar((val \div 262144) % 64), EncChar((val \div 4096) % 64)>>
    ELSE IF Len(src) = 2 THEN
        LET val == src[1] * 65536 + src[2] * 256
        IN  <<EncChar((val \div 262144) % 64), EncChar((val \div 4096) % 64),
              EncChar((val \div 64) % 64)>>
    ELSE
        LET val == src[1] * 65536 + src[2] * 256 + src[3]
        IN  <<EncChar((val \div 262144) % 64), EncChar((val \div 4096) % 64),
              EncChar((val \div 64) % 64), EncChar(val % 64)>>
            \o Encode64(SubSeq(src, 4, Len(src)))

\* The characters enc64.Decode looks at: '\r' and '\n' are ignored
RECURSIVE SkipNewlines(_)
SkipNewlines(src) ==
    IF Len(src) = 0 THEN <<>>
    ELSE IF src[1] = 10 \/ src[1] = 13 THEN SkipNewlines(Tail(src))
    ELSE <<src[1]>> \o SkipNewlines(Tail(src))

\* The bytes of a run of sextets (non-strict: trailing bits are dropped)
RECURSIVE DecodeQuanta(_)
DecodeQuanta(sx) ==
    IF Len(sx) < 2 THEN <<>>
    ELSE IF Len(sx) = 2 THEN
        <<(sx[1] * 4 + sx[2] \div 16) % 256>>
    ELSE IF Len(sx) = 3 THEN
        <<(sx[1] * 4 + sx[2] \div 16) % 256, (sx[2] * 16 + sx[3] \div 4) % 256>>
    ELSE
        <<(sx[1] * 4 + sx[2] \div 16) % 256, (sx[2] * 16 + sx[3] \div 4) % 256,
          (sx[3] * 64 + sx[4]) % 256>>
        \o DecodeQuanta(SubSeq(sx, 5, Len(sx)))

\* enc64.Decode(dst, src): the bytes written (n = their number), or an error
\* for a character outside the alphabet or a dangling single character
Decode64(src) ==
    LET chars == SkipNewlines(src)
        sx == [k \in 1..Len(chars) |-> DecChar(chars[k])]
    IN  IF (\E k \in 1..Len(sx) : sx[k] = -1) \/ Len(sx) % 4 = 1
        THEN [err |-> TRUE, bytes |-> <<>>]
        ELSE [err |-> FALSE, bytes |-> DecodeQuanta(sx)]

(***************************************************************************)
(* Mode, Config, Raw and the errors                                        *)
(***************************************************************************)
ModeArgon2d == 0
ModeArgon2i == 1
ModeArgon2id == 2

ErrNil == "nil"
ErrDecodingFail == "ErrDecodingFail"
ErrPwdTooShort == "ErrPwdTooShort"

\* The zero value of Config and of Raw
ZeroConfig ==
    [HashLength |-> 0, SaltLength |-> 0, TimeCost |-> U32Zero,
     MemoryCost |-> U32Zero, Parallelism |-> U32Zero, Mode |-> 0,
     Version |-> U32Zero]

ZeroRaw == [Config |-> ZeroConfig, Salt |-> NilSlice, Hash |-> NilSlice]

(***************************************************************************)
(* The literal chunks                                                      *)
(***************************************************************************)
decChunk1 == <<36, 97, 114, 103, 111, 110, 50>>   \* "$argon2"
decChunk2 == <<118, 61>>                          \* "v="
decChunk3 == <<36, 109, 61>>                      \* "$m="
decChunk4 == <<44, 116, 61>>                      \* ",t="
decChunk5 == <<44, 112, 61>>                      \* ",p="
encTypD == <<100, 36, 118, 61>>                   \* "d$v="
encTypI == <<105, 36, 118, 61>>                   \* "i$v="
encTypID == <<105, 100, 36, 118, 61>>             \* "id$v="

(***************************************************************************)
(* Raw.Encode.  A buffer under construction is its bytes and its capacity. *)
(***************************************************************************)
Max(a, b) == IF a >= b THEN a ELSE b

\* make([]byte, 0, n)
MakeBuf(n) == [bytes |-> <<>>, cap |-> n]

\* append(buf, xs...): the capacity grows only when the bytes do not fit.
\* (By how much is the runtime's choice; at least to what is needed.)
AppendBytes(buf, xs) ==
    LET n == Len(buf.bytes) + Len(xs)
    IN  [bytes |-> buf.bytes \o xs,
         cap |-> IF n <= buf.cap THEN buf.cap ELSE Max(2 * buf.cap, n)]

\* appendBase64 over the padded encoding: '=' up to a multiple of 4
appendBase64Padded(dst, src, encLenArg) ==
    LET enc == Encode64(src)
        pad == [k \in 1..((4 - (Len(enc) % 4)) % 4) |-> 61]
    IN  [bytes |-> dst.bytes \o enc \o pad,
         cap |-> Max(dst.cap, Len(dst.bytes) + Len(enc) + Len(pad))]

\* appendBase64 handed the length of the padded encoding: the bytes of
\* dst[l:newl] that enc64.Encode does not write keep the zeros of make()
appendBase64Slack(dst, src, encLenArg) ==
    LET enc == Encode64(src)
        slack == [k \in 1..((4 - (Len(enc) % 4)) % 4) |-> 0]
    IN  [bytes |-> dst.bytes \o enc \o slack,
         cap |-> Max(dst.cap, Len(dst.bytes) + Len(enc) + Len(slack))]

\* appendBase64(dst, src, encLen); Encode passes encLen = EncodedLen(len(src))
appendBase64(dst, src, encLenArg) ==
    LET l == Len(dst.bytes)
        c == dst.cap
        encLen == IF encLenArg <= 0 THEN EncodedLen(Len(src)) ELSE encLenArg
        newl == l + encLen
        newc == IF newl > c THEN Max(c * c, newl) ELSE c
    IN  [bytes |-> SubSeq(dst.bytes \o Encode64(src), 1, newl), cap |-> newc]

\* The switch on c.Mode: encTyp stays nil for an unknown mode
EncTyp(mode) ==
    IF mode = ModeArgon2d THEN encTypD
    ELSE IF mode = ModeArgon2i THEN encTypI
    ELSE IF mode = ModeArgon2id THEN encTypID
    ELSE <<>>

\* The buffer Encode builds, step by step
EncodeBuf(raw) ==
    LET c == raw.Config
        saltLen64 == EncodedLen(Len(raw.Salt.bytes))
        hashLen64 == EncodedLen(Len(raw.Hash.bytes))
        b0 == MakeBuf(saltLen64 + hashLen64 + 36)
        b1 == AppendBytes(b0, decChunk1)
        b2 == AppendBytes(b1, EncTyp(c.Mode))
        b3 == AppendBytes(b2, FormatUint(c.Version))
        b4 == AppendBytes(b3, decChunk3)
        b5 == AppendBytes(b4, FormatUint(c.MemoryCost))
        b6 == AppendBytes(b5, decChunk4)
        b7 == AppendBytes(b6, FormatUint(c.TimeCost))
        b8 == AppendBytes(b7, decChunk5)
        b9 == AppendBytes(b8, FormatUint(c.Parallelism))
        b10 == AppendBytes(b9, <<36>>)
        b11 == appendBase64(b10, raw.Salt.bytes, saltLen64)
        b12 == AppendBytes(b11, <<36>>)
    IN  appendBase64(b12, raw.Hash.bytes, hashLen64)

Encode(raw) == EncodeBuf(raw).bytes

(***************************************************************************)
(* Decode                                                                  *)
(***************************************************************************)
\* A failure that names a cause of its own instead of the generic error
DecodeFailureOther == [raw |-> ZeroRaw, err |-> "ErrDecodingLengthFail"]

DecodeFailure == [raw |-> ZeroRaw, err |-> ErrDecodingFail]

\* v > 255 on uint32
VersionTooBig(v) == v[1] > 0 \/ v[2] > 255

\* The scan from the "v=" literal to the end of the buffer: the OR of the
\* literal checks, the four numbers, the salt span and the digest span
ScanFields(buf, off) ==
    LET c2 == check(buf, off, decChunk2)
        v == parseUint32(buf, c2.off)
        c3 == check(buf, v.off, decChunk3)
        m == parseUint32(buf, c3.off)
        c4 == check(buf, m.off, decChunk4)
        t == parseUint32(buf, c4.off)
        c5 == check(buf, t.off, decChunk5)
        p == parseUint32(buf, c5.off)
        sk == skipUntil(buf, p.off, 36)
        s == readSlice(buf, sk.off, 36)
        h == readRest(buf, s.off)
    IN  [ok |-> BitOr(BitOr(BitOr(c2.val, c3.val), c4.val), c5.val),
         v |-> v.val, m |-> m.val, t |-> t.val, p |-> p.val,
         s |-> s.val, h |-> h.val, off |-> h.off]

\* The validity check without the upper bound on the version
FieldsInvalidNoRange(f) ==
    \/ f.ok # 0
    \/ f.v = U32Zero
    \/ f.m = U32Zero
    \/ f.t = U32Zero
    \/ f.p = U32Zero
    \/ f.s.isNil
    \/ f.h.isNil

\* The single validity check on what was scanned
FieldsInvalid(f) ==
    \/ f.ok # 0
    \/ f.v = U32Zero
    \/ VersionTooBig(f.v)
    \/ f.m = U32Zero
    \/ f.t = U32Zero
    \/ f.p = U32Zero
    \/ f.s.isNil
    \/ f.h.isNil

\* The Raw with the two lengths taken from the base64 spans s and h
BuildRawSpanLengths(f, mode, saltBytes, hashBytes) ==
    [Config |->
        [HashLength |-> Len(f.h.bytes),
         SaltLength |-> Len(f.s.bytes),
         TimeCost |-> f.t,
         MemoryCost |-> f.m,
         Parallelism |-> f.p,
         Mode |-> mode,
         Version |-> f.v],
     Salt |-> SliceOf(saltBytes),
     Hash |-> SliceOf(hashBytes)]

\* The Raw that a successful Decode returns
BuildRaw(f, mode, saltBytes, hashBytes) ==
    [Config |->
        [HashLength |-> Len(hashBytes),
         SaltLength |-> Len(saltBytes),
         TimeCost |-> f.t,
         MemoryCost |-> f.m,
         Parallelism |-> f.p,
         Mode |-> mode,
         Version |-> f.v],
     Salt |-> SliceOf(saltBytes),
     Hash |-> SliceOf(hashBytes)]

\* Decode from the "v=" literal on, once the variant is read
DecodeFields(buf, off, mode) ==
    LET f == ScanFields(buf, off)
    IN  IF FieldsInvalid(f)
        THEN DecodeFailure
        ELSE LET sd == Decode64(f.s.bytes)
                 hd == Decode64(f.h.bytes)
             IN  IF sd.err \/ hd.err
                 THEN DecodeFailure
                 ELSE [raw |-> BuildRaw(f, mode, sd.bytes, hd.bytes),
                       err |-> ErrNil]

\* The variant switch with the modes of "i$" and "id$" exchanged
DecodeVariantSwapped(buf, off) ==
    LET typ1 == readByte(buf, off)
        typ2 == readByte(buf, typ1.off)
    IN  IF typ1.val = 105 THEN
            IF typ2.val = 100 THEN
                LET r == readByte(buf, typ2.off)
                IN  IF r.val = 36
                    THEN [fail |-> FALSE, off |-> r.off, mode |-> ModeArgon2i]
                    ELSE [fail |-> TRUE, off |-> r.off, mode |-> 0]
            ELSE IF typ2.val = 36
                THEN [fail |-> FALSE, off |-> typ2.off, mode |-> ModeArgon2id]
                ELSE [fail |-> FALSE, off |-> typ2.off, mode |-> 0]
        ELSE IF typ1.val = 100
            THEN [fail |-> FALSE, off |-> typ2.off, mode |-> ModeArgon2d]
            ELSE [fail |-> TRUE, off |-> typ2.off, mode |-> 0]

\* The variant bytes after "$argon2": the offset and mode Decode goes on
\* with, or a failure.  An 'i' followed by neither 'd' nor '$' falls through
\* with mode still the zero value.
DecodeVariant(buf, off) ==
    LET typ1 == readByte(buf, off)
        typ2 == readByte(buf, typ1.off)
    IN  IF typ1.val = 105 THEN
            IF typ2.val = 100 THEN
                LET r == readByte(buf, typ2.off)
                IN  IF r.val = 36
                    THEN [fail |-> FALSE, off |-> r.off, mode |-> ModeArgon2id]
                    ELSE [fail |-> TRUE, off |-> r.off, mode |-> 0]
            ELSE IF typ2.val = 36
                THEN [fail |-> FALSE, off |-> typ2.off, mode |-> ModeArgon2i]
                ELSE [fail |-> FALSE, off |-> typ2.off, mode |-> 0]
        ELSE IF typ1.val = 100
            THEN [fail |-> FALSE, off |-> typ2.off, mode |-> ModeArgon2d]
            ELSE [fail |-> TRUE, off |-> typ2.off, mode |-> 0]

Decode(encoded) ==
    LET c1 == check(encoded, 0, decChunk1)
    IN  IF c1.val # 0 THEN DecodeFailure
        ELSE LET vr == DecodeVariant(encoded, c1.off)
             IN  IF vr.fail THEN DecodeFailure
                 ELSE DecodeFields(encoded, vr.off, vr.mode)

\* Where a returned slice lies: the array it points into and its capacity.
\* The arrays are "encoded" (the argument of Decode), "salt" and "hash" (the
\* two that Decode makes), or none for a nil slice.
NoMem ==
    [salt |-> [array |-> "nil", cap |-> 0], hash |-> [array |-> "nil", cap |-> 0]]

\* salt := make([]byte, enc64.DecodedLen(len(s))), raw.Salt = salt[0:sl],
\* and the same for hash
DecodeMem(encoded) ==
    IF Decode(encoded).err # ErrNil THEN NoMem
    ELSE LET f == ScanFields(encoded,
                             DecodeVariant(encoded, Len(decChunk1)).off)
         IN  [salt |-> [array |-> "salt", cap |-> DecodedLen(Len(f.s.bytes))],
              hash |-> [array |-> "hash", cap |-> DecodedLen(Len(f.h.bytes))]]

(***************************************************************************)
(* Config.Hash, Raw.Verify.  The hash computation itself is the external   *)
(* C library: an unknown deterministic function of its inputs, which may   *)
(* also refuse them.  hashLog lists the calls made and what each answered, *)
(* so that a call with the inputs of an earlier one gets the same answer.  *)
(***************************************************************************)
ARGON2_OK == "ARGON2_OK"
ErrArgon2 == "Error(rc)"

ByteVals == {0, 255}

\* The bound on the bytes of a record's salt and hash together
MaxBytes == 3

ByteSeqs(n) == [1..n -> ByteVals]

\* The byte strings of length n drawn for a random salt or an unknown digest:
\* all of them when short, else the constant ones
Fill(n) ==
    IF n <= MaxBytes THEN ByteSeqs(n)
    ELSE {[k \in 1..n |-> b] : b \in ByteVals}

\* What bindings_argon2_hash may answer for these inputs, given the log
Compute(c, pwdBytes, saltBytes, log) ==
    LET same(e) == e.c = c /\ e.pwd = pwdBytes /\ e.salt = saltBytes
    IN  IF \E k \in 1..Len(log) : same(log[k])
        THEN {log[k] : k \in {j \in 1..Len(log) : same(log[j])}}
        ELSE {[c |-> c, pwd |-> pwdBytes, salt |-> saltBytes, rc |-> ARGON2_OK,
               hash |-> h] : h \in Fill(c.HashLength)}
             \cup {[c |-> c, pwd |-> pwdBytes, salt |-> saltBytes,
                    rc |-> ErrArgon2, hash |-> [k \in 1..c.HashLength |-> 0]]}

\* (c *Config) Hash(pwd, salt): every possible [raw, err, log]
Hash(c, pwd, salt, log) ==
    IF pwd.isNil
    THEN {[raw |-> ZeroRaw, err |-> ErrPwdTooShort, log |-> log]}
    ELSE LET salts == IF salt.isNil THEN Fill(c.SaltLength) ELSE {salt.bytes}
         IN  {IF e.rc # ARGON2_OK
              THEN [raw |-> ZeroRaw, err |-> ErrArgon2, log |-> Append(log, e)]
              ELSE [raw |-> [Config |-> c, Salt |-> SliceOf(e.salt),
                             Hash |-> SliceOf(e.hash)],
                    err |-> ErrNil, log |-> Append(log, e)]
              : e \in UNION {Compute(c, pwd.bytes, sb, log) : sb \in salts}}

\* subtle.ConstantTimeCompare(x, y) == 1
ConstantTimeEq(x, y) == Len(x) = Len(y) /\ x = y

\* (raw *Raw) Verify(pwd): every possible [ok, err, log]
Verify(raw, pwd, log) ==
    {IF r.err # ErrNil
     THEN [ok |-> FALSE, err |-> r.err, log |-> r.log]
     ELSE [ok |-> ConstantTimeEq(r.raw.Hash.bytes, raw.Hash.bytes),
           err |-> ErrNil, log |-> r.log]
     : r \in Hash(raw.Config, pwd, raw.Salt, log)}

\* VerifyEncoded without the return on a Decode error
VerifyEncodedNoReturn(pwd, encoded, log) ==
    LET d == Decode(encoded)
    IN  {[ok |-> v.ok, err |-> v.err, log |-> v.log, dec |-> d]
         : v \in Verify(d.raw, pwd, log)}

\* VerifyEncoded(pwd, encoded): every possible [ok, err, log, dec]
VerifyEncodedResults(pwd, encoded, log) ==
    LET d == Decode(encoded)
    IN  IF d.err # ErrNil
        THEN {[ok |-> FALSE, err |-> d.err, log |-> log, dec |-> d]}
        ELSE {[ok |-> v.ok, err |-> v.err, log |-> v.log, dec |-> d]
              : v \in Verify(d.raw, pwd, log)}

(***************************************************************************)
(* The records and the byte strings the operations are applied to          *)
(***************************************************************************)
MaxU32 == <<Limb - 1, Limb - 1>>

\* The config of the tests (Version13 is 0x13), whose SaltLength differs
\* from the length of the tests' salt
TestConfig ==
    [HashLength |-> 32, SaltLength |-> 16, TimeCost |-> U32(1),
     MemoryCost |-> U32(32 * 1024), Parallelism |-> U32(1),
     Mode |-> ModeArgon2id, Version |-> U32(19)]

\* DefaultConfig()
DefaultConfig ==
    [HashLength |-> 32, SaltLength |-> 16, TimeCost |-> U32(3),
     MemoryCost |-> U32(4096), Parallelism |-> U32(1),
     Mode |-> ModeArgon2i, Version |-> U32(19)]

\* Configs a caller may build: the largest values, the smallest, zero fields,
\* a version beyond 255, a Mode that is none of the three
Configs ==
    {TestConfig, DefaultConfig,
     [HashLength |-> 2, SaltLength |-> 1, TimeCost |-> MaxU32,
      MemoryCost |-> MaxU32, Parallelism |-> MaxU32,
      Mode |-> ModeArgon2d, Version |-> U32(255)],
     [HashLength |-> 1, SaltLength |-> 2, TimeCost |-> U32(1),
      MemoryCost |-> U32(10), Parallelism |-> U32(1),
      Mode |-> ModeArgon2i, Version |-> U32(1)],
     [HashLength |-> 1, SaltLength |-> 1, TimeCost |-> U32(2),
      MemoryCost |-> U32(8), Parallelism |-> U32(1),
      Mode |-> ModeArgon2id, Version |-> U32(256)],
     [HashLength |-> 1, SaltLength |-> 1, TimeCost |-> U32(1),
      MemoryCost |-> U32(8), Parallelism |-> U32(1),
      Mode |-> 3, Version |-> U32(19)],
     ZeroConfig}

\* password, salt, expectedHash of the tests
TestPassword == <<112, 97, 115, 115, 119, 111, 114, 100>>
TestSalt == <<115, 97, 108, 116, 115, 97, 108, 116>>
ExpectedHash ==
    <<139, 118, 66, 92, 63, 17, 51, 11, 184, 106, 68, 37, 211, 16, 139, 244,
      189, 217, 38, 53, 116, 148, 139, 173, 176, 3, 182, 239, 235, 210, 75, 155>>

\* config.Hash(password, salt) as TestHashWithSalt expects it
TestRaw ==
    [Config |-> TestConfig, Salt |-> SliceOf(TestSalt),
     Hash |-> SliceOf(ExpectedHash)]

\* The salt and hash pairs of at most MaxBytes bytes together
SaltHashPairs ==
    UNION {ByteSeqs(n) \X ByteSeqs(k) : n \in 0..MaxBytes, k \in 0..MaxBytes}

Records ==
    {TestRaw} \cup
    {[Config |-> c, Salt |-> SliceOf(sh[1]), Hash |-> SliceOf(sh[2])] :
        c \in Configs,
        sh \in {x \in SaltHashPairs : Len(x[1]) + Len(x[2]) <= MaxBytes}}

\* The passwords given to HashEncoded and VerifyEncoded
Passwords == {NilSlice, SliceOf(<<>>), SliceOf(<<112>>)}

\* The index of the first occurrence of pat in buf at or after i, or -1
RECURSIVE FindFrom(_, _, _)
FindFrom(buf, pat, i) ==
    IF i + Len(pat) > Len(buf) THEN -1
    ELSE IF Slice(buf, i, i + Len(pat)) = pat THEN i
    ELSE FindFrom(buf, pat, i + 1)

\* The index after the run of digits starting at i
RECURSIVE DigitsEnd(_, _)
DigitsEnd(buf, i) ==
    IF i < Len(buf) /\ 48 <= buf[i + 1] /\ buf[i + 1] <= 57
    THEN DigitsEnd(buf, i + 1)
    ELSE i

\* The "x=" that introduces each numeric field
Marker(f) ==
    IF f = "v" THEN <<118, 61>>
    ELSE IF f = "m" THEN <<109, 61>>
    ELSE IF f = "t" THEN <<116, 61>>
    ELSE <<112, 61>>

Fields == {"v", "m", "t", "p"}

\* buf with the digits of field f replaced by txt
WithField(buf, f, txt) ==
    LET k == FindFrom(buf, Marker(f), 0) + 2
    IN  Slice(buf, 0, k) \o txt \o Slice(buf, DigitsEnd(buf, k), Len(buf))

\* buf with the bytes between "$argon2" and "v=" replaced by vt
WithVariant(buf, vt) ==
    decChunk1 \o vt \o Slice(buf, FindFrom(buf, decChunk2, 0), Len(buf))

\* The index of the last occurrence of delim in buf before index j, or -1
RECURSIVE LastIndexByte(_, _, _)
LastIndexByte(buf, delim, j) ==
    IF j <= 0 THEN -1
    ELSE IF buf[j] = delim THEN j - 1
    ELSE LastIndexByte(buf, delim, j - 1)

\* buf with the digest span (all after the last '$') replaced by txt
WithHash(buf, txt) ==
    Slice(buf, 0, LastIndexByte(buf, 36, Len(buf)) + 1) \o txt

\* buf with the salt span (between the last two '$') replaced by txt
WithSalt(buf, txt) ==
    LET h == LastIndexByte(buf, 36, Len(buf))
        s == LastIndexByte(buf, 36, h)
    IN  Slice(buf, 0, s + 1) \o txt \o Slice(buf, h, Len(buf))

\* buf with txt put right after the digits of the parallelism
WithData(buf, txt) ==
    LET k == DigitsEnd(buf, FindFrom(buf, Marker("p"), 0) + 2)
    IN  Slice(buf, 0, k) \o txt \o Slice(buf, k, Len(buf))

\* '$'-free texts put after the parallelism: ",data=AA", ",", "x9", and two
\* that start with a digit, "0" and "9,d"
DataTexts ==
    {<<44, 100, 97, 116, 97, 61, 65, 65>>, <<44>>, <<120, 57>>,
     <<48>>, <<57, 44, 100>>}

\* Spans put in place of the salt or the digest: a newline, a single
\* character, two characters and a newline, a character and a '='
SpanTexts == {<<10>>, <<65>>, <<65, 65, 10>>, <<65, 61>>}

\* Digit strings put in place of a numeric field: none, zeros, a leading zero,
\* 255 and 256, 4294967295, 4294967296, 9999999999
FieldTexts ==
    {<<>>, <<48>>, <<48, 48>>, <<48, 49>>, <<50, 53, 53>>, <<50, 53, 54>>,
     <<52, 50, 57, 52, 57, 54, 55, 50, 57, 53>>,
     <<52, 50, 57, 52, 57, 54, 55, 50, 57, 54>>,
     <<57, 57, 57, 57, 57, 57, 57, 57, 57, 57>>}

\* Byte strings put in place of the variant and its '$': one of d, i, x, then
\* optionally one of d, i, x, $, then optionally one of $, x
VariantTexts ==
    LET a == {100, 105, 120}
        b == {100, 105, 120, 36}
        c == {36, 120}
    IN  {<<x>> : x \in a} \cup {<<x, y>> : x \in a, y \in b}
        \cup {<<x, y, z>> : x \in a, y \in b, z \in c}

(***************************************************************************)
(* The state machine: a caller holds a Raw record (its own, or the one     *)
(* HashEncoded computes), encodes it, hands the encoded string or an       *)
(* edited copy of it to Decode or to VerifyEncoded.                        *)
(***************************************************************************)
VARIABLES
    raw,        \* the Raw record that is encoded
    pwd,        \* the password given to HashEncoded (nil before)
    herr,       \* the error HashEncoded returned
    encoded,    \* what Encode / HashEncoded returned
    input,      \* the byte string handed to Decode / VerifyEncoded
    edit,       \* how input was made from encoded
    out,        \* what Decode returned: [raw, err]
    vpwd,       \* the password given to VerifyEncoded
    verdict,    \* what VerifyEncoded returned: [ok, err]
    hashLog,    \* the hash computations made so far, in order
    pc,
    mem,        \* the arrays the Salt and Hash that Decode returned lie in
    pbuf,       \* parser.buf
    poff,       \* parser.off
    pop         \* the parser operation made last, its argument and result

\* The variables of a parser at work on a buffer of its own
pvars == <<pbuf, poff, pop>>

\* The variables of the callers of Encode, Decode and VerifyEncoded
cvars == <<raw, pwd, herr, encoded, input, edit, out, vpwd, verdict, hashLog,
           pc, mem>>

vars == <<raw, pwd, herr, encoded, input, edit, out, vpwd, verdict, hashLog,
          pc, mem, pvars>>

NoEdit == [kind |-> "none", field |-> "", text |-> <<>>]

\* No parser operation made yet
NoOp ==
    [name |-> "none", arg |-> <<>>, off0 |-> 0, val |-> 0, lo |-> 0, hi |-> 0]

Init ==
    /\ raw \in Records
    /\ pwd = NilSlice
    /\ herr = ErrNil
    /\ encoded = <<>>
    /\ input = <<>>
    /\ edit = NoEdit
    /\ out = [raw |-> ZeroRaw, err |-> ErrNil]
    /\ vpwd = NilSlice
    /\ verdict = [ok |-> FALSE, err |-> ErrNil]
    /\ hashLog = <<>>
    /\ pc = "init"
    /\ mem = NoMem
    /\ pbuf = <<>>
    /\ poff = 0
    /\ pop = NoOp

\* encoded := raw.Encode()
DoEncode ==
    /\ pc = "init"
    /\ encoded' = Encode(raw)
    /\ pc' = "encoded"
    /\ UNCHANGED <<raw, pwd, herr, input, edit, out, vpwd, verdict, hashLog,
                 mem, pvars>>

\* encoded, err := raw.Config.HashEncoded(p)
HashEncoded(p) ==
    /\ pc = "init"
    /\ \E r \in Hash(raw.Config, p, NilSlice, hashLog) :
        /\ raw' = r.raw
        /\ herr' = r.err
        /\ encoded' = IF r.err = ErrNil THEN Encode(r.raw) ELSE <<>>
        /\ hashLog' = r.log
    /\ pwd' = p
    /\ pc' = "hashed"
    /\ UNCHANGED <<input, edit, out, vpwd, verdict,
                 mem, pvars>>

Ready == pc \in {"encoded", "hashed"}

\* The caller passes the encoded string on as it is
Intact ==
    /\ Ready
    /\ input' = encoded
    /\ edit' = [kind |-> "intact", field |-> "", text |-> <<>>]
    /\ pc' = IF pc = "hashed" THEN "hinput" ELSE "input"
    /\ UNCHANGED <<raw, pwd, herr, encoded, out, vpwd, verdict, hashLog,
                 mem, pvars>>

\* ... or a proper non-empty prefix of it
Truncate(n) ==
    /\ Ready
    /\ n \in 1..(Len(encoded) - 1)
    /\ input' = SubSeq(encoded, 1, n)
    /\ edit' = [kind |-> "prefix", field |-> "", text |-> <<>>]
    /\ pc' = IF pc = "hashed" THEN "hinput" ELSE "input"
    /\ UNCHANGED <<raw, pwd, herr, encoded, out, vpwd, verdict, hashLog,
                 mem, pvars>>

\* ... or a copy with other digits in one numeric field
ReplaceField(f, txt) ==
    /\ Ready
    /\ FindFrom(encoded, Marker(f), 0) >= 0
    /\ input' = WithField(encoded, f, txt)
    /\ edit' = [kind |-> "field", field |-> f, text |-> txt]
    /\ pc' = IF pc = "hashed" THEN "hinput" ELSE "input"
    /\ UNCHANGED <<raw, pwd, herr, encoded, out, vpwd, verdict, hashLog,
                 mem, pvars>>

\* ... or a copy with other bytes where the variant and its '$' stand
ReplaceVariant(vt) ==
    /\ Ready
    /\ FindFrom(encoded, decChunk2, 0) >= 0
    /\ input' = WithVariant(encoded, vt)
    /\ edit' = [kind |-> "variant", field |-> "", text |-> vt]
    /\ pc' = IF pc = "hashed" THEN "hinput" ELSE "input"
    /\ UNCHANGED <<raw, pwd, herr, encoded, out, vpwd, verdict, hashLog,
                 mem, pvars>>

\* ... or a copy with another salt span (which = "s") or digest span ("h")
ReplaceSpan(which, txt) ==
    /\ Ready
    /\ Len(encoded) > 0
    /\ input' = IF which = "s" THEN WithSalt(encoded, txt)
                 ELSE WithHash(encoded, txt)
    /\ edit' = [kind |-> "span", field |-> which, text |-> txt]
    /\ pc' = IF pc = "hashed" THEN "hinput" ELSE "input"
    /\ UNCHANGED <<raw, pwd, herr, encoded, out, vpwd, verdict, hashLog,
                 mem, pvars>>

\* ... or a copy with text put between the parallelism digits and the '$'
InsertData(txt) ==
    /\ Ready
    /\ FindFrom(encoded, Marker("p"), 0) >= 0
    /\ input' = WithData(encoded, txt)
    /\ edit' = [kind |-> "data", field |-> "p", text |-> txt]
    /\ pc' = IF pc = "hashed" THEN "hinput" ELSE "input"
    /\ UNCHANGED <<raw, pwd, herr, encoded, out, vpwd, verdict, hashLog,
                 mem, pvars>>

\* out := Decode(input)
DoDecode ==
    /\ pc \in {"input", "hinput"}
    /\ out' = Decode(input)
    /\ mem' = DecodeMem(input)
    /\ pc' = "decoded"
    /\ UNCHANGED <<raw, pwd, herr, encoded, input, edit, vpwd, verdict, hashLog,
                 pvars>>

\* verdict := VerifyEncoded(p, input), after a HashEncoded
VerifyEncoded(p) ==
    /\ pc = "hinput"
    /\ \E v \in VerifyEncodedResults(p, input, hashLog) :
        /\ verdict' = [ok |-> v.ok, err |-> v.err]
        /\ out' = v.dec
        /\ hashLog' = v.log
    /\ mem' = DecodeMem(input)
    /\ vpwd' = p
    /\ pc' = "verified"
    /\ UNCHANGED <<raw, pwd, herr, encoded, input, edit, pvars>>

Next ==
    \/ DoEncode
    \/ \E p \in Passwords : HashEncoded(p)
    \/ Intact
    \/ \E n \in 1..Len(encoded) : Truncate(n)
    \/ \E f \in Fields, txt \in FieldTexts : ReplaceField(f, txt)
    \/ \E vt \in VariantTexts : ReplaceVariant(vt)
    \/ \E which \in {"s", "h"}, txt \in SpanTexts : ReplaceSpan(which, txt)
    \/ \E txt \in DataTexts : InsertData(txt)
    \/ DoDecode
    \/ \E p \in Passwords : VerifyEncoded(p)

Spec == Init /\ [][Next]_vars

(***************************************************************************)
(* Properties                                                              *)
(***************************************************************************)
U32Positive(u) == u # U32Zero

VersionInRange(v) == v[1] = 0 /\ 1 <= v[2] /\ v[2] <= 255

KnownMode(m) == m \in {ModeArgon2d, ModeArgon2i, ModeArgon2id}

\* A record as the round trip requires it
ValidRecord(r) ==
    /\ KnownMode(r.Config.Mode)
    /\ VersionInRange(r.Config.Version)
    /\ U32Positive(r.Config.MemoryCost)
    /\ U32Positive(r.Config.TimeCost)
    /\ U32Positive(r.Config.Parallelism)
    /\ ~r.Salt.isNil /\ Len(r.Salt.bytes) > 0
    /\ ~r.Hash.isNil /\ Len(r.Hash.bytes) > 0

\* r with the two length fields set to the lengths of its salt and hash
WithOwnLengths(r) ==
    [r EXCEPT !.Config.HashLength = Len(r.Hash.bytes),
              !.Config.SaltLength = Len(r.Salt.bytes)]

\* Decode has returned for the input at hand
Decoded == pc = "decoded"

\* C1 as stated: for every valid record r, Decode(r.Encode()) succeeds and
\* returns a record equal to r in every field, HashLength and SaltLength
\* included.
C1_RoundTripExact ==
    (Decoded /\ edit.kind = "intact" /\ herr = ErrNil /\ ValidRecord(raw))
        => out = [raw |-> raw, err |-> ErrNil]

\* C1 amended: for every valid record r, Decode(r.Encode()) succeeds and
\* returns r's TimeCost, MemoryCost, Parallelism, Mode, Version, Salt and
\* Hash, with HashLength = len(r.Hash) and SaltLength = len(r.Salt) whatever
\* r.Config says.
C1_RoundTrip ==
    (Decoded /\ edit.kind = "intact" /\ herr = ErrNil /\ ValidRecord(raw))
        => out = [raw |-> WithOwnLengths(raw), err |-> ErrNil]

\* A valid record whose SaltLength is not the length of its salt has made
\* the round trip.
C1_Witness ==
    /\ Decoded /\ edit.kind = "intact" /\ ValidRecord(raw)
    /\ raw.Config.SaltLength # Len(raw.Salt.bytes)
    /\ out.err = ErrNil
    /\ out.raw.Salt = raw.Salt

\* The number of digest characters a prefix of the encoded string keeps
DigestKept == Len(input) - (Len(encoded) - EncodedLen(Len(raw.Hash.bytes)))

\* C2 as stated: Decode of every proper non-empty prefix of a valid encoded
\* string returns ErrDecodingFail.
C2_PrefixRejected ==
    (Decoded /\ edit.kind = "prefix" /\ ValidRecord(raw))
        => out.err = ErrDecodingFail

\* C2 amended: Decode of a proper non-empty prefix returns ErrDecodingFail
\* when the prefix keeps fewer than 2 digest characters or a number of them
\* that is 1 modulo 4; a prefix that keeps k other digest characters decodes
\* successfully, to the record with the hash cut to its first 6k/8 bytes.
C2_PrefixRejectedBeforeDigest ==
    (Decoded /\ edit.kind = "prefix" /\ ValidRecord(raw))
        => IF DigestKept < 2 \/ DigestKept % 4 = 1
           THEN out = DecodeFailure
           ELSE LET n == (DigestKept * 6) \div 8
                    cut == [raw EXCEPT !.Hash = SliceOf(SubSeq(raw.Hash.bytes, 1, n))]
                IN  out = [raw |-> WithOwnLengths(cut), err |-> ErrNil]

\* A prefix that ends inside the digest, five or more characters in, was
\* rejected.
C2_Witness ==
    /\ Decoded /\ edit.kind = "prefix" /\ ValidRecord(raw)
    /\ DigestKept >= 5 /\ DigestKept % 4 = 1
    /\ out.err = ErrDecodingFail

\* txt without its leading zeros
RECURSIVE StripZeros(_)
StripZeros(txt) ==
    IF Len(txt) > 0 /\ txt[1] = 48 THEN StripZeros(Tail(txt)) ELSE txt

\* The digit string txt denotes a number greater than the digit string bound
DigitsAbove(txt, bound) ==
    LET d == StripZeros(txt)
    IN  Len(d) > Len(bound) \/ (Len(d) = Len(bound) /\ Compare(d, bound) = 1)

\* txt denotes a value greater than 4294967295
Overflows(txt) == DigitsAbove(txt, <<52, 50, 57, 52, 57, 54, 55, 50, 57, 53>>)

\* C3: a numeric field whose digits denote more than 4294967295 parses to 0
\* and makes Decode return ErrDecodingFail.
C3_OverflowRejected ==
    (Decoded /\ edit.kind = "field" /\ ValidRecord(raw) /\ Overflows(edit.text))
        => /\ parseUint32(edit.text, 0).val = U32Zero
           /\ out.err = ErrDecodingFail

\* C4: Decode returns either ErrDecodingFail with the zero Raw, or nil with
\* a Raw whose Config, Salt and Hash are all set.
C4_FailureGenericAtomic ==
    Decoded =>
        \/ out = [raw |-> ZeroRaw, err |-> ErrDecodingFail]
        \/ /\ out.err = ErrNil
           /\ U32Positive(out.raw.Config.Version)
           /\ U32Positive(out.raw.Config.MemoryCost)
           /\ U32Positive(out.raw.Config.TimeCost)
           /\ U32Positive(out.raw.Config.Parallelism)
           /\ ~out.raw.Salt.isNil
           /\ ~out.raw.Hash.isNil
           /\ out.raw.Config.SaltLength = Len(out.raw.Salt.bytes)
           /\ out.raw.Config.HashLength = Len(out.raw.Hash.bytes)

\* Decode failed on a span that is not base64, and returned the zero Raw.
C4_Witness ==
    /\ Decoded /\ edit.kind = "span" /\ edit.text = <<65, 61>>
    /\ ValidRecord(raw)
    /\ out = [raw |-> ZeroRaw, err |-> ErrDecodingFail]

\* txt is empty or all zeros
DenotesZero(txt) == \A k \in 1..Len(txt) : txt[k] = 48

\* raw is valid but for a version beyond 255
ValidButVersion(r) ==
    /\ ValidRecord([r EXCEPT !.Config.Version = U32(1)])
    /\ ~VersionInRange(r.Config.Version)

\* C5: Decode returns ErrDecodingFail when, in an otherwise valid string, a
\* numeric field is 0 or has no digits, or the version is more than 255.
C5_ZeroAndRangeRejected ==
    /\ (Decoded /\ edit.kind = "field" /\ ValidRecord(raw)
        /\ (DenotesZero(edit.text)
            \/ (edit.field = "v" /\ DigitsAbove(edit.text, <<50, 53, 53>>))))
           => out.err = ErrDecodingFail
    /\ (Decoded /\ edit.kind = "intact" /\ herr = ErrNil /\ ValidButVersion(raw))
           => out.err = ErrDecodingFail

\* A version of 256 in an otherwise valid string was rejected.
C5_Witness ==
    /\ Decoded /\ edit.kind = "field" /\ ValidRecord(raw)
    /\ edit.field = "v" /\ edit.text = <<50, 53, 54>>
    /\ out.err = ErrDecodingFail

\* C6: with "d$", "i$", "id$" after "$argon2" an otherwise valid string
\* decodes to ModeArgon2d, ModeArgon2i, ModeArgon2id; with a first variant
\* byte other than 'd' or 'i' Decode returns ErrDecodingFail.
C6_VariantDisambiguation ==
    (Decoded /\ edit.kind = "variant" /\ ValidRecord(raw)) =>
        /\ edit.text = <<100, 36>> =>
              out.err = ErrNil /\ out.raw.Config.Mode = ModeArgon2d
        /\ edit.text = <<105, 36>> =>
              out.err = ErrNil /\ out.raw.Config.Mode = ModeArgon2i
        /\ edit.text = <<105, 100, 36>> =>
              out.err = ErrNil /\ out.raw.Config.Mode = ModeArgon2id
        /\ edit.text[1] \notin {100, 105} => out.err = ErrDecodingFail

\* The string of an Argon2d record, with "id$" put in, decoded as Argon2id.
C6_Witness ==
    /\ Decoded /\ edit.kind = "variant" /\ ValidRecord(raw)
    /\ raw.Config.Mode = ModeArgon2d
    /\ edit.text = <<105, 100, 36>>
    /\ out.err = ErrNil /\ out.raw.Config.Mode = ModeArgon2id

\* C7: after "$argon2i" only 'd' (then '$') or '$' is accepted; any other
\* second byte makes Decode return ErrDecodingFail.
C7_SecondByteFatal ==
    (Decoded /\ edit.kind = "variant" /\ Len(edit.text) >= 2
     /\ edit.text[1] = 105 /\ edit.text[2] \notin {100, 36})
        => out.err = ErrDecodingFail

\* C8: a Raw that Decode returns with a nil error has a non-empty Salt and
\* Hash, a known Mode, a Version in 1..255 and positive costs.
C8_DecodedRecordValid ==
    (Decoded /\ out.err = ErrNil) => ValidRecord(out.raw)

\* The variant suffix of the layout
Suffix(mode) ==
    IF mode = ModeArgon2d THEN <<100>>
    ELSE IF mode = ModeArgon2i THEN <<105>>
    ELSE <<105, 100>>

\* The number of decimal digits of u
RECURSIVE DigitCount(_)
DigitCount(u) ==
    IF u[1] = 0 /\ u[2] < 10 THEN 1 ELSE 1 + DigitCount(U32Div10(u))

\* ds is the decimal text of u: digits only, no leading zero, of value u
IsDecimalOf(ds, u) ==
    /\ Len(ds) = DigitCount(u)
    /\ \A k \in 1..Len(ds) : 48 <= ds[k] /\ ds[k] <= 57
    /\ Len(ds) > 1 => ds[1] # 48
    /\ parseUint32(ds, 0) = [off |-> Len(ds), val |-> u]

\* cs is the unpadded standard base64 text of the bytes bs
IsBase64Of(cs, bs) ==
    /\ Len(cs) = EncodedLen(Len(bs))
    /\ \A k \in 1..Len(cs) : DecChar(cs[k]) # -1
    /\ Decode64(cs) = [err |-> FALSE, bytes |-> bs]

\* expectedEncoded of the tests
ExpectedEncoded ==
    <<36, 97, 114, 103, 111, 110, 50, 105, 100, 36, 118, 61, 49, 57, 36, 109,
      61, 51, 50, 55, 54, 56, 44, 116, 61, 49, 44, 112, 61, 49, 36, 99, 50,
      70, 115, 100, 72, 78, 104, 98, 72, 81, 36, 105, 51, 90, 67, 88, 68, 56,
      82, 77, 119, 117, 52, 97, 107, 81, 108, 48, 120, 67, 76, 57, 76, 51, 90,
      74, 106, 86, 48, 108, 73, 117, 116, 115, 65, 79, 50, 55, 43, 118, 83,
      83, 53, 115>>

\* encoded holds the output of Encode on raw
EncodedOfRaw == pc # "init" /\ herr = ErrNil

\* The parts of the encoded string, found from its length backwards and
\* from the field markers
PartsOf(buf, r) ==
    LET hlen == EncodedLen(Len(r.Hash.bytes))
        slen == EncodedLen(Len(r.Salt.bytes))
        hAt == Len(buf) - hlen
        sAt == hAt - 1 - slen
        vAt == 7 + Len(Suffix(r.Config.Mode)) + 3
        mAt == vAt + DigitCount(r.Config.Version) + 3
        tAt == mAt + DigitCount(r.Config.MemoryCost) + 3
        pAt == tAt + DigitCount(r.Config.TimeCost) + 3
    IN  [head |-> Slice(buf, 0, vAt),
         v |-> Slice(buf, vAt, mAt - 3), sepM |-> Slice(buf, mAt - 3, mAt),
         m |-> Slice(buf, mAt, tAt - 3), sepT |-> Slice(buf, tAt - 3, tAt),
         t |-> Slice(buf, tAt, pAt - 3), sepP |-> Slice(buf, pAt - 3, pAt),
         p |-> Slice(buf, pAt, sAt - 1), sepS |-> Slice(buf, sAt - 1, sAt),
         s |-> Slice(buf, sAt, hAt - 1), sepH |-> Slice(buf, hAt - 1, hAt),
         h |-> Slice(buf, hAt, Len(buf))]

\* C9: Encode returns "$argon2" + suffix + "$v=" + decimal(Version) + "$m="
\* + decimal(MemoryCost) + ",t=" + decimal(TimeCost) + ",p=" +
\* decimal(Parallelism) + "$" + base64(Salt) + "$" + base64(Hash), decimals
\* of minimal width and base64 unpadded, for any salt and hash lengths; its
\* length is the sum of the parts; the tests' record gives expectedEncoded.
C9_EncodeLayout ==
    (EncodedOfRaw /\ KnownMode(raw.Config.Mode)) =>
        LET c == raw.Config
            parts == PartsOf(encoded, raw)
        IN  /\ Len(encoded) =
                   7 + Len(Suffix(c.Mode)) + 3 + DigitCount(c.Version)
                   + 3 + DigitCount(c.MemoryCost) + 3 + DigitCount(c.TimeCost)
                   + 3 + DigitCount(c.Parallelism)
                   + 1 + EncodedLen(Len(raw.Salt.bytes))
                   + 1 + EncodedLen(Len(raw.Hash.bytes))
            /\ parts.head = decChunk1 \o Suffix(c.Mode) \o <<36, 118, 61>>
            /\ IsDecimalOf(parts.v, c.Version)
            /\ parts.sepM = <<36, 109, 61>>
            /\ IsDecimalOf(parts.m, c.MemoryCost)
            /\ parts.sepT = <<44, 116, 61>>
            /\ IsDecimalOf(parts.t, c.TimeCost)
            /\ parts.sepP = <<44, 112, 61>>
            /\ IsDecimalOf(parts.p, c.Parallelism)
            /\ parts.sepS = <<36>>
            /\ IsBase64Of(parts.s, raw.Salt.bytes)
            /\ parts.sepH = <<36>>
            /\ IsBase64Of(parts.h, raw.Hash.bytes)
            /\ raw = TestRaw => encoded = ExpectedEncoded

\* A record with an empty salt was encoded into more bytes than the buffer
\* was first sized for.
C9_Witness ==
    /\ pc = "encoded"
    /\ Len(raw.Salt.bytes) = 0 /\ Len(raw.Hash.bytes) > 0
    /\ Len(encoded) >
          EncodedLen(Len(raw.Salt.bytes)) + EncodedLen(Len(raw.Hash.bytes)) + 36

\* A config that HashEncoded is meant for
ValidConfig(c) ==
    /\ c.HashLength > 0 /\ c.SaltLength > 0
    /\ U32Positive(c.TimeCost) /\ U32Positive(c.MemoryCost)
    /\ U32Positive(c.Parallelism)
    /\ KnownMode(c.Mode) /\ VersionInRange(c.Version)

\* C10: when HashEncoded(pwd) succeeded for a valid config, VerifyEncoded of
\* the same password and the encoded string returns (true, nil); and when
\* Decode of its input fails, VerifyEncoded returns (false, ErrDecodingFail)
\* and has computed no hash.
C10_VerifyAfterHash ==
    /\ (pc = "verified" /\ herr = ErrNil /\ edit.kind = "intact" /\ vpwd = pwd
        /\ ValidConfig(raw.Config))
           => verdict = [ok |-> TRUE, err |-> ErrNil]
    /\ (pc = "verified" /\ Decode(input).err # ErrNil)
           => /\ verdict = [ok |-> FALSE, err |-> ErrDecodingFail]
              /\ Len(hashLog) = (IF pwd.isNil THEN 0 ELSE 1)

\* HashEncoded with the tests' config succeeded and VerifyEncoded of the same
\* password and string said true.
C10_Witness ==
    /\ pc = "verified" /\ herr = ErrNil /\ edit.kind = "intact" /\ vpwd = pwd
    /\ raw.Config = TestConfig
    /\ Len(hashLog) = 2
    /\ verdict = [ok |-> TRUE, err |-> ErrNil]

(***************************************************************************)
(* C11                                                                     *)
(***************************************************************************)
\* C11: for every record (any Mode, any numeric values, any salt and hash
\* bytes) the output of Encode is non-empty and holds no 0x00 byte.
C11_NoNul ==
    EncodedOfRaw =>
        /\ Len(encoded) > 0
        /\ \A k \in 1..Len(encoded) : encoded[k] # 0

\* Encode has run on a record of zero numeric values, or of a Mode that is
\* none of the three, whose salt and hash hold 0x00 bytes.
C11_Witness ==
    /\ pc = "encoded"
    /\ raw.Config = ZeroConfig \/ ~KnownMode(raw.Config.Mode)
    /\ \E k \in 1..Len(raw.Salt.bytes) : raw.Salt.bytes[k] = 0
    /\ \E k \in 1..Len(raw.Hash.bytes) : raw.Hash.bytes[k] = 0
    /\ Len(encoded) > 0

(***************************************************************************)
(* C12                                                                     *)
(***************************************************************************)
\* C12: when the byte after "$argon2" is 'd' and the byte after it is not
\* '$', with "v=..." following, Decode returns ErrDecodingFail.
C12_DThenDollar ==
    (Decoded /\ edit.kind = "variant" /\ Len(edit.text) = 2
     /\ edit.text[1] = 100 /\ edit.text[2] # 36)
        => out.err = ErrDecodingFail

(***************************************************************************)
(* The parser by itself: parser{buf: b} for a buffer b, then its           *)
(* operations in any order, each from the offset the one before left.      *)
(***************************************************************************)
MaxBufLen == 3

\* '$', '9', '=', 'v'
ParserBytes == {36, 57, 61, 118}

RECURSIVE SeqsOver(_, _)
SeqsOver(S, n) ==
    IF n = 0 THEN {<<>>}
    ELSE {<<x>> \o t : x \in S, t \in SeqsOver(S, n - 1)}

\* The buffers: all of at most MaxBufLen bytes of ParserBytes, the digit
\* strings alone and as "v=<digits>$", the tests' encoded string and its
\* first four bytes
ParserBuffers ==
    UNION {SeqsOver(ParserBytes, n) : n \in 0..MaxBufLen}
    \cup FieldTexts
    \cup {decChunk2 \o t \o <<36>> : t \in FieldTexts}
    \cup {ExpectedEncoded, Slice(ExpectedEncoded, 0, 4)}

\* The arguments Decode gives to check, and to skipUntil and readSlice
CheckArgs == {decChunk1, decChunk2, decChunk3, decChunk4, decChunk5}
Delims == {36}

Min(a, b) == IF a <= b THEN a ELSE b

\* The bounds <<lo, hi>> of the widest index or slice expression that the
\* operation evaluates on buf when called at off (buf[lo:hi]); lo = hi = off
\* when it evaluates none
Touched(name, buf, off, b) ==
    IF name = "check" THEN
        IF off + Len(b) <= Len(buf) THEN <<off, off + Len(b)>> ELSE <<off, off>>
    ELSE IF name = "readByte" THEN
        IF off < Len(buf) THEN <<off, off + 1>> ELSE <<off, off>>
    ELSE IF name = "parseUint32" THEN
        IF off < Len(buf)
        THEN <<off, Min(DigitsEnd(buf, off) + 1, Len(buf))>>
        ELSE <<off, off>>
    ELSE IF name = "readRest" THEN
        IF off < Len(buf) THEN <<off, Len(buf)>> ELSE <<off, off>>
    ELSE <<off, Len(buf)>>

\* What the operation leaves in poff and pop
Called(name, b, r) ==
    /\ pc = "parser"
    /\ poff' = r.off
    /\ pop' = [name |-> name, arg |-> b, off0 |-> poff, val |-> r.val,
               lo |-> Touched(name, pbuf, poff, b)[1],
               hi |-> Touched(name, pbuf, poff, b)[2]]
    /\ UNCHANGED <<pbuf, cvars>>

ParserInit ==
    /\ pbuf \in ParserBuffers
    /\ poff = 0
    /\ pop = NoOp
    /\ raw = ZeroRaw
    /\ pwd = NilSlice
    /\ herr = ErrNil
    /\ encoded = <<>>
    /\ input = <<>>
    /\ edit = NoEdit
    /\ out = [raw |-> ZeroRaw, err |-> ErrNil]
    /\ vpwd = NilSlice
    /\ verdict = [ok |-> FALSE, err |-> ErrNil]
    /\ hashLog = <<>>
    /\ pc = "parser"
    /\ mem = NoMem

ParserCheck(b) == Called("check", b, check(pbuf, poff, b))

ParserReadByte == Called("readByte", <<>>, readByte(pbuf, poff))

ParserParseUint32 == Called("parseUint32", <<>>, parseUint32(pbuf, poff))

ParserSkipUntil(d) ==
    Called("skipUntil", <<d>>, [off |-> skipUntil(pbuf, poff, d).off, val |-> 0])

ParserReadSlice(d) == Called("readSlice", <<d>>, readSlice(pbuf, poff, d))

ParserReadRest == Called("readRest", <<>>, readRest(pbuf, poff))

ParserNext ==
    \/ \E b \in CheckArgs : ParserCheck(b)
    \/ ParserReadByte
    \/ ParserParseUint32
    \/ \E d \in Delims : ParserSkipUntil(d)
    \/ \E d \in Delims : ParserReadSlice(d)
    \/ ParserReadRest

ParserSpec == ParserInit /\ [][ParserNext]_vars

(***************************************************************************)
(* C13, C14, C15                                                           *)
(***************************************************************************)
\* C13: check(b) with fewer than len(b) bytes left returns a non-zero result
\* and leaves the offset where it was; with at least len(b) bytes left it
\* moves the offset by len(b), match or not, and returns 0 iff the bytes
\* equal b.
C13_CheckResult ==
    (pc = "parser" /\ pop.name = "check") =>
        LET j == pop.off0 + Len(pop.arg)
        IN  IF j > Len(pbuf)
            THEN pop.val # 0 /\ poff = pop.off0
            ELSE /\ poff = j
                 /\ pop.val = 0 <=> Slice(pbuf, pop.off0, j) = pop.arg

\* The decimal text of the number the digit string ds denotes
Decimal(ds) == IF StripZeros(ds) = <<>> THEN <<48>> ELSE StripZeros(ds)

\* The number of digits of ds after which its value first exceeds 4294967295
OverflowAt(ds) ==
    CHOOSE k \in 1..Len(ds) :
        /\ Overflows(SubSeq(ds, 1, k))
        /\ \A j \in 1..(k - 1) : ~Overflows(SubSeq(ds, 1, j))

\* C14: parseUint32 returns the value of the maximal run of digits at the
\* offset and moves the offset past the run (no digits: 0, offset unchanged);
\* when the value exceeds 4294967295 it returns 0 and leaves the offset at
\* the digit where the accumulated value first exceeded it.
C14_ParseUint32 ==
    (pc = "parser" /\ pop.name = "parseUint32") =>
        LET e == DigitsEnd(pbuf, pop.off0)
            ds == Slice(pbuf, pop.off0, e)
        IN  IF ~Overflows(ds)
            THEN poff = e /\ FormatUint(pop.val) = Decimal(ds)
            ELSE /\ pop.val = U32Zero
                 /\ poff \in {pop.off0 + OverflowAt(ds) - 1,
                               pop.off0 + OverflowAt(ds)}

\* C15: whatever operations are called and in whatever order, the offset
\* never decreases and stays within 0..len(buf), every index and slice
\* expression evaluated lies within the buffer, and the buffer keeps its
\* contents.
C15_CursorInvariant ==
    /\ [](pc = "parser" =>
            /\ 0 <= pop.off0 /\ pop.off0 <= poff /\ poff <= Len(pbuf)
            /\ 0 <= pop.lo /\ pop.lo <= pop.hi /\ pop.hi <= Len(pbuf))
    /\ [][poff' >= poff /\ pbuf' = pbuf]_pvars

\* The operations have taken the offset to the end of the tests' encoded
\* string, and readByte called there has returned 0 without moving it.
C15_Witness ==
    /\ pc = "parser"
    /\ pbuf = ExpectedEncoded
    /\ pop.name = "readByte" /\ pop.off0 = Len(pbuf)
    /\ poff = Len(pbuf) /\ pop.val = 0

(***************************************************************************)
(* C16, C17                                                                *)
(***************************************************************************)
IsDigit(ch) == 48 <= ch /\ ch <= 57

\* C16 as stated: with any '$'-free text put between the parallelism digits
\* and the '$' that starts the salt, Decode returns what it returns for the
\* string without the text.
C16_DataIgnoredAnyText ==
    (Decoded /\ edit.kind = "data") => out = Decode(encoded)

\* C16 amended: with '$'-free text that does not start with a digit put
\* between the parallelism digits and the '$' that starts the salt, Decode
\* returns what it returns for the string without the text; for a valid
\* record that is the record, its salt and its digest.
C16_DataIgnored ==
    (Decoded /\ edit.kind = "data" /\ ~IsDigit(edit.text[1])) =>
        /\ out = Decode(encoded)
        /\ ValidRecord(raw) =>
               out = [raw |-> WithOwnLengths(raw), err |-> ErrNil]

\* The tests' string with ",data=AA" after "p=1" was decoded to the tests'
\* record.
C16_Witness ==
    /\ Decoded /\ edit.kind = "data"
    /\ edit.text = <<44, 100, 97, 116, 97, 61, 65, 65>>
    /\ raw = TestRaw
    /\ out.err = ErrNil /\ out.raw.Salt.bytes = TestSalt

\* The spans between the last two '$' of buf, and after the last
SaltSpan(buf) ==
    LET h == LastIndexByte(buf, 36, Len(buf))
    IN  Slice(buf, LastIndexByte(buf, 36, h) + 1, h)

HashSpan(buf) == Slice(buf, LastIndexByte(buf, 36, Len(buf)) + 1, Len(buf))

\* C17: on every successful Decode, SaltLength = len(Salt) and HashLength =
\* len(Hash), Salt and Hash being the base64-decoded salt and digest spans,
\* each in an array that Decode made and not in the input.
C17_LengthsFromDecoded ==
    (pc \in {"decoded", "verified"} /\ out.err = ErrNil) =>
        /\ out.raw.Config.SaltLength = Len(out.raw.Salt.bytes)
        /\ out.raw.Config.HashLength = Len(out.raw.Hash.bytes)
        /\ Decode64(SaltSpan(input)) =
               [err |-> FALSE, bytes |-> out.raw.Salt.bytes]
        /\ Decode64(HashSpan(input)) =
               [err |-> FALSE, bytes |-> out.raw.Hash.bytes]
        /\ mem.salt.array = "salt" /\ mem.hash.array = "hash"
        /\ Len(out.raw.Salt.bytes) <= mem.salt.cap
        /\ Len(out.raw.Hash.bytes) <= mem.hash.cap

\* The tests' record, whose SaltLength is 16, came back from Decode with the
\* 8 bytes of its salt and SaltLength 8.
C17_Witness ==
    /\ Decoded /\ edit.kind = "intact" /\ raw = TestRaw
    /\ raw.Config.SaltLength = 16
    /\ out.err = ErrNil
    /\ out.raw.Config.SaltLength = 8 /\ out.raw.Config.HashLength = 32

=============================================================================
